---- MODULE Spec2Model ----
(***************************************************************************)
(* The World storage contract of the workflow runtime: the serialization   *)
(* boundary (packages/world/src/serialization.ts), the remote backend's    *)
(* step codec and resolution policy (packages/world-vercel/src/steps.ts),  *)
(* and the filesystem backend's filters and steps storage (filters.ts and  *)
(* steps storage of world-local).                                          *)
(*                                                                         *)
(* JavaScript strings are sequences: identifiers are sequences of          *)
(* characters, error texts are sequences of lexical tokens.  Reading a     *)
(* property that an object does not carry yields undefined, so an object   *)
(* is a record over the keys the code reads, undefined standing for a      *)
(* missing key as well as for a key holding undefined.                     *)
(***************************************************************************)
EXTENDS Integers, Sequences, FiniteSets, TLC

VARIABLES
  stepsDir,   \* the files of basedir/steps: the set of stored step records
  call,       \* the request being served: operation and parameters
  ret,        \* what the filesystem backend (or a pure function) returned
  rret,       \* what the remote backend returned
  wire,       \* the wire entities the remote server answered with
  arg,        \* the in-memory entity handed to a projection, after the call
  pages       \* the pages a client collected while following cursors

vars == <<stepsDir, call, ret, rret, wire, arg, pages>>

(***************************************************************************)
(* Sequences as strings                                                    *)
(***************************************************************************)
\* The elements of a sequence, as a set.
Range(s) == {s[i] : i \in 1..Len(s)}

\* String.prototype.endsWith
EndsWith(s, suffix) ==
  /\ Len(suffix) <= Len(s)
  /\ SubSeq(s, Len(s) - Len(suffix) + 1, Len(s)) = suffix

\* String.prototype.startsWith
StartsWith(s, prefix) ==
  /\ Len(prefix) <= Len(s)
  /\ SubSeq(s, 1, Len(prefix)) = prefix

\* s.split(sep)[0]: the part of s before the first sep, all of s without one.
SplitFirst(s, sep) ==
  IF \E i \in 1..Len(s) : s[i] = sep
  THEN LET first == CHOOSE i \in 1..Len(s) :
                      /\ s[i] = sep
                      /\ \A j \in 1..(i - 1) : s[j] # sep
       IN SubSeq(s, 1, first - 1)
  ELSE s

\* Lexicographic order of two sequences of strings from Alphabet order.
RECURSIVE SeqLess(_, _, _)
SeqLess(a, b, rank) ==
  IF Len(b) = 0 THEN FALSE
  ELSE IF Len(a) = 0 THEN TRUE
  ELSE IF a[1] # b[1] THEN rank[a[1]] < rank[b[1]]
  ELSE SeqLess(Tail(a), Tail(b), rank)

(***************************************************************************)
(* JavaScript values                                                       *)
(***************************************************************************)
\* A value as the field of an object: a scalar, or a nested object or array
\* whose inside is not looked at.
SV(kind, str) == [kind |-> kind, str |-> str]
UndefSV == SV("undefined", <<>>)
NullSV == SV("null", <<>>)
NumSV(digits) == SV("number", <<digits>>)
StrSV(content) == SV("string", content)
TrueSV == SV("boolean", <<"true">>)
NestedObjSV == SV("object", <<>>)
NestedArrSV == SV("array", <<>>)

\* A value: kind, the text of a scalar, the three fields an error object is
\* read for, and the items of an array.
JV(kind, str, m, s, c, items) ==
  [kind |-> kind, str |-> str, message |-> m, stack |-> s, code |-> c,
   items |-> items]
UndefinedV == JV("undefined", <<>>, UndefSV, UndefSV, UndefSV, <<>>)
NullV == JV("null", <<>>, UndefSV, UndefSV, UndefSV, <<>>)
ScalarV(sv) == JV(sv.kind, sv.str, UndefSV, UndefSV, UndefSV, <<>>)
StringV(content) == ScalarV(StrSV(content))
ObjV(m, s, c) == JV("object", <<>>, m, s, c, <<>>)
ArrV(items) == JV("array", <<>>, UndefSV, UndefSV, UndefSV, items)

\* x == null || x === undefined, the test of the ?? operator.
Nullish(v) == v.kind \in {"undefined", "null"}

\* ToBoolean: what if (x) tests.
Truthy(v) ==
  CASE v.kind \in {"undefined", "null"} -> FALSE
    [] v.kind = "string" -> Len(v.str) > 0
    [] v.kind = "number" -> v.str # <<"0">>
    [] v.kind = "boolean" -> v.str = <<"true">>
    [] OTHER -> TRUE

\* typeof x === 'object': objects, arrays and null.
TypeofObject(v) == v.kind \in {"object", "array", "null"}

\* String(x) of a field value; inside Array.prototype.join null and undefined
\* give the empty string.
StringOfSV(sv) ==
  CASE sv.kind \in {"string", "number", "boolean"} -> sv.str
    [] sv.kind = "null" -> <<"null">>
    [] sv.kind = "undefined" -> <<"undefined">>
    [] sv.kind = "object" -> <<"[object Object]">>
    [] OTHER -> <<>>

JoinItem(sv) == IF sv.kind \in {"null", "undefined"} THEN <<>> ELSE StringOfSV(sv)

RECURSIVE JoinItems(_)
JoinItems(items) ==
  IF Len(items) = 0 THEN <<>>
  ELSE IF Len(items) = 1 THEN JoinItem(items[1])
  ELSE JoinItem(items[1]) \o <<",">> \o JoinItems(Tail(items))

\* String(x)
StringOf(v) ==
  IF v.kind = "array" THEN JoinItems(v.items)
  ELSE StringOfSV(SV(v.kind, v.str))

(***************************************************************************)
(* JSON texts, as sequences of tokens                                      *)
(***************************************************************************)
\* The string literals of the texts, each with the string it denotes.
Literals ==
  [lit : {"\"message\""}, content : {<<"message">>}] \cup
  [lit : {"\"stack\""}, content : {<<"stack">>}] \cup
  [lit : {"\"code\""}, content : {<<"code">>}] \cup
  [lit : {"\"boom\""}, content : {<<"boom">>}] \cup
  [lit : {"\"trace\""}, content : {<<"trace">>}] \cup
  [lit : {"\"E1\""}, content : {<<"E1">>}] \cup
  [lit : {"\"\""}, content : {<<>>}]

IsLiteral(tok) == \E l \in Literals : l.lit = tok
Unquote(tok) == (CHOOSE l \in Literals : l.lit = tok).content
Quote(content) == (CHOOSE l \in Literals : l.content = content).lit

WS == " "

\* The index of the first token at or after i that is not white space.
RECURSIVE SkipWS(_, _)
SkipWS(s, i) ==
  IF i <= Len(s) /\ s[i] = WS THEN SkipWS(s, i + 1) ELSE i

Fail == [ok |-> FALSE, val |-> UndefSV, next |-> 0]

\* A field value at s[i]: a scalar, {} or [].
ParseField(s, i) ==
  IF i > Len(s) THEN Fail
  ELSE CASE s[i] = "null" -> [ok |-> TRUE, val |-> NullSV, next |-> i + 1]
         [] s[i] = "true" -> [ok |-> TRUE, val |-> TrueSV, next |-> i + 1]
         [] s[i] \in {"0", "1"} ->
              [ok |-> TRUE, val |-> NumSV(s[i]), next |-> i + 1]
         [] IsLiteral(s[i]) ->
              [ok |-> TRUE, val |-> StrSV(Unquote(s[i])), next |-> i + 1]
         [] s[i] = "{" ->
              LET j == SkipWS(s, i + 1)
              IN IF j <= Len(s) /\ s[j] = "}"
                 THEN [ok |-> TRUE, val |-> NestedObjSV, next |-> j + 1]
                 ELSE Fail
         [] s[i] = "[" ->
              LET j == SkipWS(s, i + 1)
              IN IF j <= Len(s) /\ s[j] = "]"
                 THEN [ok |-> TRUE, val |-> NestedArrSV, next |-> j + 1]
                 ELSE Fail
         [] OTHER -> Fail

NoFields == [message |-> UndefSV, stack |-> UndefSV, code |-> UndefSV]

\* obj[key] = val for the keys an error is read for; a repeated key keeps
\* the last value, any other key is parsed and dropped.
SetField(fields, key, val) ==
  CASE key = <<"message">> -> [fields EXCEPT !.message = val]
    [] key = <<"stack">> -> [fields EXCEPT !.stack = val]
    [] key = <<"code">> -> [fields EXCEPT !.code = val]
    [] OTHER -> fields

ParseFail == [ok |-> FALSE, val |-> UndefinedV, next |-> 0]

\* The members of an object from s[i], which is past "{" or past a ",".
RECURSIVE ParseMembers(_, _, _)
ParseMembers(s, i, fields) ==
  LET k == SkipWS(s, i)
  IN IF k > Len(s) \/ ~IsLiteral(s[k]) THEN ParseFail
     ELSE LET c == SkipWS(s, k + 1)
          IN IF c > Len(s) \/ s[c] # ":" THEN ParseFail
             ELSE LET f == ParseField(s, SkipWS(s, c + 1))
                  IN IF ~f.ok THEN ParseFail
                     ELSE LET e == SkipWS(s, f.next)
                              got == SetField(fields, Unquote(s[k]), f.val)
                          IN IF e > Len(s) THEN ParseFail
                             ELSE IF s[e] = "}"
                             THEN [ok |-> TRUE,
                                   val |-> ObjV(got.message, got.stack, got.code),
                                   next |-> e + 1]
                             ELSE IF s[e] = ","
                             THEN ParseMembers(s, e + 1, got)
                             ELSE ParseFail

\* The items of an array from s[i], which is past "[" or past a ",".
RECURSIVE ParseItems(_, _, _)
ParseItems(s, i, items) ==
  LET f == ParseField(s, SkipWS(s, i))
  IN IF ~f.ok THEN ParseFail
     ELSE LET e == SkipWS(s, f.next)
              got == Append(items, f.val)
          IN IF e > Len(s) THEN ParseFail
             ELSE IF s[e] = "]"
             THEN [ok |-> TRUE, val |-> ArrV(got), next |-> e + 1]
             ELSE IF s[e] = ","
             THEN ParseItems(s, e + 1, got)
             ELSE ParseFail

\* One JSON value at s[i].
ParseValue(s, i) ==
  IF i > Len(s) THEN ParseFail
  ELSE IF s[i] = "{"
  THEN LET j == SkipWS(s, i + 1)
       IN IF j <= Len(s) /\ s[j] = "}"
          THEN [ok |-> TRUE, val |-> ObjV(UndefSV, UndefSV, UndefSV),
                next |-> j + 1]
          ELSE ParseMembers(s, i + 1, NoFields)
  ELSE IF s[i] = "["
  THEN LET j == SkipWS(s, i + 1)
       IN IF j <= Len(s) /\ s[j] = "]"
          THEN [ok |-> TRUE, val |-> ArrV(<<>>), next |-> j + 1]
          ELSE ParseItems(s, i + 1, <<>>)
  ELSE LET f == ParseField(s, i)
       IN IF f.ok THEN [ok |-> TRUE, val |-> ScalarV(f.val), next |-> f.next]
          ELSE ParseFail

\* JSON.parse: ok with the value when the whole text is one JSON value
\* (white space allowed around it); not ok where JSON.parse throws.
JSONParse(s) ==
  LET p == ParseValue(s, SkipWS(s, 1))
  IN IF p.ok /\ SkipWS(s, p.next) > Len(s) THEN p ELSE ParseFail

\* JSON.stringify of a field value.
StringifySV(sv) ==
  CASE sv.kind = "null" -> <<"null">>
    [] sv.kind \in {"number", "boolean"} -> sv.str
    [] sv.kind = "string" -> <<Quote(sv.str)>>
    [] sv.kind = "object" -> <<"{", "}">>
    [] sv.kind = "array" -> <<"[", "]">>
    [] OTHER -> <<>>

Member(key, sv) ==
  IF sv.kind = "undefined" THEN <<>>
  ELSE <<<<Quote(key), ":">> \o StringifySV(sv)>>

RECURSIVE SepBy(_, _)
SepBy(parts, sep) ==
  IF Len(parts) = 0 THEN <<>>
  ELSE IF Len(parts) = 1 THEN parts[1]
  ELSE parts[1] \o <<sep>> \o SepBy(Tail(parts), sep)

\* JSON.stringify: the text an error object or a JSON value is sent as.
Stringify(v) ==
  CASE v.kind = "object" ->
         <<"{">> \o SepBy(Member(<<"message">>, v.message)
                          \o Member(<<"stack">>, v.stack)
                          \o Member(<<"code">>, v.code), ",") \o <<"}">>
    [] v.kind = "array" ->
         <<"[">> \o SepBy([i \in 1..Len(v.items) |-> StringifySV(v.items[i])], ",")
         \o <<"]">>
    [] OTHER -> StringifySV(SV(v.kind, v.str))

(***************************************************************************)
(* Entities                                                                *)
(***************************************************************************)
\* A payload field: undefined, a Uint8Array of bytes, or the marker the
\* remote server sends in place of one (inputRef, outputRef).
UndefP == [kind |-> "undefined", bytes |-> <<>>]
Bytes(b) == [kind |-> "Uint8Array", bytes |-> b]
RefP == [kind |-> "ref", bytes |-> <<>>]

\* runId undefined (and the empty string, which !runId treats alike).
NoRunId == <<>>

\* A step as stored and as returned; on the wire it may carry inputRef,
\* outputRef and errorRef as well, and its error may be a string.
Step(runId, stepId, createdAt, input, output, error) ==
  [runId |-> runId, stepId |-> stepId, createdAt |-> createdAt,
   input |-> input, output |-> output, error |-> error,
   inputRef |-> UndefP, outputRef |-> UndefP, errorRef |-> UndefinedV]

NoStep == Step(<<>>, <<>>, 0, UndefP, UndefP, UndefinedV)

\* A cursor: absent, or the ordering key of the last item of a page.
NoCursor == [present |-> FALSE, createdAt |-> 0, id |-> <<>>]

NoMsg == [template |-> "", stepId |-> <<>>, runId |-> <<>>]

\* The outcome of an operation: nothing yet, a value (an entity, or a page
\* of entities and its cursor), or a thrown Error and its message.
NoResult ==
  [status |-> "none", value |-> NoStep, data |-> <<>>, cursor |-> NoCursor,
   payload |-> UndefP, msg |-> NoMsg, remoteRefBehavior |-> "", endpoint |-> ""]
Returned(value) == [NoResult EXCEPT !.status = "ok", !.value = value]
ReturnedPage(data, cursor) ==
  [NoResult EXCEPT !.status = "ok", !.data = data, !.cursor = cursor]
Thrown(msg) == [NoResult EXCEPT !.status = "throw", !.msg = msg]

NoCall ==
  [op |-> "", runId |-> NoRunId, stepId |-> <<>>, resolveData |-> "",
   limit |-> 0, sortOrder |-> "", cursor |-> NoCursor, payload |-> UndefP]
Request(op, runId, stepId, resolveData) ==
  [NoCall EXCEPT !.op = op, !.runId = runId, !.stepId = stepId,
                 !.resolveData = resolveData]

\* The pages of a listing followed from its start: the parameters of the
\* listing, the backend asked, the pages so far, and the cursor the last one
\* came with.
NoPages == [params |-> NoCall, backend |-> "", got |-> <<>>, cursor |-> NoCursor]

\* No operation is in progress: the caller may issue one.
Idle == call = NoCall

\* A backend may serve the request: none is in progress, or this very
\* request is and this backend has not answered it yet.
Serving(request, outcome) ==
  /\ Idle \/ call = request
  /\ outcome.status = "none"

\* The caller takes the outcome of the operation it awaited; nothing of the
\* call outlives it but the store.
Settle ==
  /\ call # NoCall
  /\ call' = NoCall
  /\ ret' = NoResult
  /\ rret' = NoResult
  /\ wire' = <<>>
  /\ arg' = <<>>
  /\ UNCHANGED <<stepsDir, pages>>

\* The default of an omitted resolveData: the overloads type a call without
\* it as returning the entity with its data.
DEFAULT_RESOLVE_DATA_OPTION == "all"

\* params?.resolveData ?? DEFAULT_RESOLVE_DATA_OPTION
ResolveDataOf(resolveData) ==
  IF resolveData = "omitted" THEN DEFAULT_RESOLVE_DATA_OPTION ELSE resolveData

(***************************************************************************)
(* world-vercel: the step codec                                            *)
(***************************************************************************)
\* Mutant of ErrorSource: the operands of ?? swapped, errorRef ?? error.
ErrorSource_RefFirst(wireStep) ==
  IF Nullish(wireStep.errorRef) THEN wireStep.error ELSE wireStep.errorRef

\* const errorSource = error ?? errorRef
ErrorSource(wireStep) ==
  IF Nullish(wireStep.error) THEN wireStep.errorRef ELSE wireStep.error

\* { message: m } and { message: m, stack: s, code: c }
MessageOnly(m) == ObjV(m, UndefSV, UndefSV)

\* The try block: JSON.parse, then the test of the parsed value.  Reading
\* .message of null throws a TypeError inside the try, which the catch takes
\* like a text that does not parse.
ErrorOfString(errorSource) ==
  LET p == JSONParse(errorSource.str)
      parsed == p.val
  IN IF ~p.ok THEN MessageOnly(StrSV(errorSource.str))
     ELSE IF TypeofObject(parsed)
     THEN IF parsed.kind = "null" THEN MessageOnly(StrSV(errorSource.str))
          ELSE IF parsed.message.kind # "undefined"
          THEN ObjV(parsed.message, parsed.stack, parsed.code)
          ELSE MessageOnly(StrSV(StringOf(parsed)))
     ELSE MessageOnly(StrSV(StringOf(parsed)))

\* errorSource.message ?? 'Unknown error', stack and code copied.
ErrorOfObject(errorSource) ==
  ObjV(IF Nullish(errorSource.message) THEN StrSV(<<"Unknown error">>)
       ELSE errorSource.message,
       errorSource.stack, errorSource.code)

\* The error of the result: set only for a truthy errorSource that is a
\* string or an object; result.error is not set otherwise.
NormalizeError(errorSource) ==
  IF ~Truthy(errorSource) THEN UndefinedV
  ELSE IF errorSource.kind = "string" THEN ErrorOfString(errorSource)
  ELSE IF errorSource.kind \in {"object", "array"} THEN ErrorOfObject(errorSource)
  ELSE UndefinedV

\* deserializeStep: the rest of the wire step, with error set from
\* error/errorRef; errorRef is destructured away.
deserializeStep(wireStep) ==
  [wireStep EXCEPT !.error = NormalizeError(ErrorSource(wireStep)),
                   !.errorRef = UndefinedV]

\* Mutant of vercel_filterStepData: the markers are not destructured away,
\* the 'none' projection keeps inputRef and outputRef.
vercel_filterStepData_KeepsMarkers(step, resolveData) ==
  IF resolveData = "none"
  THEN [deserializeStep(step) EXCEPT !.input = UndefP, !.output = UndefP]
  ELSE deserializeStep(step)

\* world-vercel's filterStepData: for 'none' the markers are destructured
\* away and input and output set to undefined.
vercel_filterStepData(step, resolveData) ==
  IF resolveData = "none"
  THEN [deserializeStep([step EXCEPT !.inputRef = UndefP, !.outputRef = UndefP])
          EXCEPT !.input = UndefP, !.output = UndefP]
  ELSE deserializeStep(step)

\* resolveData === 'none' ? 'lazy' : 'resolve'
RemoteRefBehavior(resolveData) ==
  IF resolveData = "none" THEN "lazy" ELSE "resolve"

\* The answer of the remote server to a request: wire steps (one, or a page
\* and its cursor), or a failure that makeRequest throws.
AnswerOf(steps, cursor) == [ok |-> TRUE, body |-> steps, cursor |-> cursor]
Answer(step) == AnswerOf(<<step>>, NoCursor)
NoAnswer == [ok |-> FALSE, body |-> <<>>, cursor |-> NoCursor]

ServerError == [NoMsg EXCEPT !.template = "request failed"]

\* getStep: the request names the run when runId is truthy, the step alone
\* otherwise; the answer goes through filterStepData.
getStep(runId, stepId, resolveData, answer) ==
  LET rd == ResolveDataOf(resolveData)
      sent == [NoResult EXCEPT
                 !.remoteRefBehavior = RemoteRefBehavior(rd),
                 !.endpoint = IF runId # NoRunId THEN "/v2/runs/:runId/steps/:stepId"
                              ELSE "/v2/steps/:stepId"]
  IN /\ Serving(Request("steps.get", runId, stepId, resolveData), rret)
     /\ call' = Request("steps.get", runId, stepId, resolveData)
     /\ wire' = answer.body
     /\ rret' = IF answer.ok
                THEN [sent EXCEPT !.status = "ok",
                                  !.value = vercel_filterStepData(answer.body[1], rd)]
                ELSE [sent EXCEPT !.status = "throw", !.msg = ServerError]
     /\ UNCHANGED <<stepsDir, ret, arg, pages>>

\* createStep: POST, then deserializeStep of the answer.
createStep(runId, answer) ==
  /\ Idle
  /\ call' = Request("createStep", runId, <<>>, "")
  /\ wire' = answer.body
  /\ rret' = IF answer.ok
             THEN [Returned(deserializeStep(answer.body[1]))
                     EXCEPT !.endpoint = "/v2/runs/:runId/steps"]
             ELSE [Thrown(ServerError) EXCEPT !.endpoint = "/v2/runs/:runId/steps"]
  /\ ret' = NoResult
  /\ UNCHANGED <<stepsDir, arg, pages>>

\* updateStep: PUT, then deserializeStep of the answer.
updateStep(runId, stepId, answer) ==
  /\ Idle
  /\ call' = Request("updateStep", runId, stepId, "")
  /\ wire' = answer.body
  /\ rret' = IF answer.ok
             THEN [Returned(deserializeStep(answer.body[1]))
                     EXCEPT !.endpoint = "/v2/runs/:runId/steps/:stepId"]
             ELSE [Thrown(ServerError)
                     EXCEPT !.endpoint = "/v2/runs/:runId/steps/:stepId"]
  /\ ret' = NoResult
  /\ UNCHANGED <<stepsDir, arg, pages>>

(***************************************************************************)
(* world-local: the filters                                                *)
(***************************************************************************)
\* A run, an event and a hook, with the fields the filters touch.
Run(runId, input, output) == [runId |-> runId, input |-> input, output |-> output]
Event(eventId, eventData) == [eventId |-> eventId, eventData |-> eventData]
Hook(hookId, metadata) == [hookId |-> hookId, metadata |-> metadata]

\* filterRunData: for 'none' a copy with input and output undefined.
filterRunData(run, resolveData) ==
  IF resolveData = "none"
  THEN [run EXCEPT !.input = UndefP, !.output = UndefP]
  ELSE run

\* Mutant of filterStepData: the 'none' branch lost, the step is returned
\* as it is.
filterStepData_KeepsData(step, resolveData) == step

\* filterStepData: for 'none' a copy with input and output undefined.
filterStepData(step, resolveData) ==
  IF resolveData = "none"
  THEN [step EXCEPT !.input = UndefP, !.output = UndefP]
  ELSE step

\* filterEventData: for 'none' the rest of the event without eventData.
filterEventData(event, resolveData) ==
  IF resolveData = "none" THEN [event EXCEPT !.eventData = UndefP] ELSE event

\* filterHookData: for 'none' the rest of the hook without metadata.
filterHookData(hook, resolveData) ==
  IF resolveData = "none" THEN [hook EXCEPT !.metadata = UndefP] ELSE hook

\* Mutant of Spread: no copy is made, input and output are struck out of
\* the entity itself.
Spread_InPlace(entity, resolveData) ==
  IF resolveData = "none"
  THEN [entity EXCEPT !.input = UndefP, !.output = UndefP]
  ELSE entity

\* { ...entity, input: undefined, output: undefined } builds a new object:
\* the entity the filter was handed is, after the call, what it was.
Spread(entity, resolveData) == entity

(***************************************************************************)
(* world-local: the steps storage                                          *)
(***************************************************************************)
\* `${runId}-${stepId}`
CompositeKey(runId, stepId) == runId \o <<"-">> \o stepId

\* The name, without .json, of the file a stored step lies in.
FileId(step) == CompositeKey(step.runId, step.stepId)

\* listJSONFiles: the names of the files of the directory.  The order of a
\* directory listing is the file system's, so the names are a set and what
\* depends on their order is a choice.
listJSONFiles(dir) == {FileId(s) : s \in dir}

\* readJSON: the record of the file, or null when there is no such file.
readJSON(dir, fileId) ==
  IF \E s \in dir : FileId(s) = fileId
  THEN [found |-> TRUE, step |-> CHOOSE s \in dir : FileId(s) = fileId]
  ELSE [found |-> FALSE, step |-> NoStep]

\* `Step ${stepId} not found`
StepNotFound(stepId) ==
  [template |-> "Step ${stepId} not found", stepId |-> stepId, runId |-> <<>>]

\* `Step ${stepId} in run ${runId} not found`
StepInRunNotFound(stepId, runId) ==
  [template |-> "Step ${stepId} in run ${runId} not found",
   stepId |-> stepId, runId |-> runId]

\* The outcome of a read with the entities handed to the projection.
Outcome(result, handed) == [ret |-> result, arg |-> handed]

\* Mutant of ReadStep: the test of the record read is lost, a missing file
\* comes back as a success without a record.
ReadStep_NullSuccess(dir, runId, stepId, resolveData) ==
  LET step == readJSON(dir, CompositeKey(runId, stepId))
  IN Outcome(Returned(filterStepData(step.step, ResolveDataOf(resolveData))),
             <<Spread(step.step, ResolveDataOf(resolveData))>>)

\* get, from the composite key on: read the file, fail when there is none,
\* project the record.
ReadStep(dir, runId, stepId, resolveData) ==
  LET step == readJSON(dir, CompositeKey(runId, stepId))
  IN IF ~step.found
     THEN Outcome(Thrown(StepInRunNotFound(stepId, runId)), <<>>)
     ELSE Outcome(Returned(filterStepData(step.step, ResolveDataOf(resolveData))),
                  <<Spread(step.step, ResolveDataOf(resolveData))>>)

\* The files fileIds.find may return: those whose name ends in -stepId.
ReverseMatches(dir, stepId) ==
  {fileId \in listJSONFiles(dir) : EndsWith(fileId, <<"-">> \o stepId)}

\* get: without a run id the run is taken from the name of a file that ends
\* in -stepId, as the text before its first '-'.
GetOutcomes(dir, runId, stepId, resolveData) ==
  IF runId = NoRunId
  THEN IF ReverseMatches(dir, stepId) = {}
       THEN {Outcome(Thrown(StepNotFound(stepId)), <<>>)}
       ELSE {ReadStep(dir, SplitFirst(fileId, "-"), stepId, resolveData) :
               fileId \in ReverseMatches(dir, stepId)}
  ELSE {ReadStep(dir, runId, stepId, resolveData)}

\* steps.get of the filesystem backend.
steps_get(runId, stepId, resolveData) ==
  /\ Serving(Request("steps.get", runId, stepId, resolveData), ret)
  /\ call' = Request("steps.get", runId, stepId, resolveData)
  /\ \E out \in GetOutcomes(stepsDir, runId, stepId, resolveData) :
       /\ ret' = out.ret
       /\ arg' = out.arg
  /\ UNCHANGED <<stepsDir, rret, wire, pages>>

(***************************************************************************)
(* Listing                                                                 *)
(***************************************************************************)
\* The code units of the characters of the identifiers.
CharCode ==
  [c \in {"-", "a", "b", "q", "r", "s", "t", "x"} |->
     CASE c = "-" -> 45 [] c = "a" -> 97 [] c = "b" -> 98 [] c = "q" -> 113
       [] c = "r" -> 114 [] c = "s" -> 115 [] c = "t" -> 116 [] OTHER -> 120]

\* The ordering key: creation time, then the identifier.
KeyLess(createdAt1, id1, createdAt2, id2) ==
  \/ createdAt1 < createdAt2
  \/ createdAt1 = createdAt2 /\ SeqLess(id1, id2, CharCode)

\* a comes before b in the order asked for.
Before(a, b, sortOrder) ==
  IF sortOrder = "asc"
  THEN KeyLess(a.createdAt, a.stepId, b.createdAt, b.stepId)
  ELSE KeyLess(b.createdAt, b.stepId, a.createdAt, a.stepId)

RECURSIVE Sorted(_, _)
Sorted(steps, sortOrder) ==
  IF steps = {} THEN <<>>
  ELSE LET first == CHOOSE x \in steps :
                      \A y \in steps \ {x} : ~Before(y, x, sortOrder)
       IN <<first>> \o Sorted(steps \ {first}, sortOrder)

\* The cursor of a page: the ordering key of its last item.
CursorOf(step) ==
  [present |-> TRUE, createdAt |-> step.createdAt, id |-> step.stepId]

\* The step comes after the place the cursor marks.
AfterCursor(step, cursor, sortOrder) ==
  \/ ~cursor.present
  \/ IF sortOrder = "asc"
     THEN KeyLess(cursor.createdAt, cursor.id, step.createdAt, step.stepId)
     ELSE KeyLess(step.createdAt, step.stepId, cursor.createdAt, cursor.id)

\* The pagination engine: the records after the cursor in the order asked
\* for, cut at the limit; a cursor comes with the page when records remain.
PageOf(steps, sortOrder, limit, cursor) ==
  LET rest == Sorted({s \in steps : AfterCursor(s, cursor, sortOrder)}, sortOrder)
      hasMore == Len(rest) > limit
      data == IF hasMore THEN SubSeq(rest, 1, limit) ELSE rest
  IN [data |-> data,
      cursor |-> IF hasMore /\ limit > 0 THEN CursorOf(data[limit]) ELSE NoCursor,
      hasMore |-> hasMore]

\* paginatedFileSystemQuery: the pagination engine over the files whose name
\* starts with the prefix.
paginatedFileSystemQuery(dir, filePrefix, sortOrder, limit, cursor) ==
  PageOf({s \in dir : StartsWith(FileId(s), filePrefix)}, sortOrder, limit, cursor)

ListRequest(runId, resolveData, limit, sortOrder, cursor) ==
  [Request("steps.list", runId, <<>>, resolveData)
     EXCEPT !.limit = limit, !.sortOrder = sortOrder, !.cursor = cursor]

\* Mutant of ListOutcome: params.pagination?.cursor is not handed on, every
\* call lists from the start.
ListOutcome_DropsCursor(dir, runId, resolveData, limit, sortOrder, cursor) ==
  LET result == paginatedFileSystemQuery(dir, runId \o <<"-">>,
                  IF sortOrder = "omitted" THEN "desc" ELSE sortOrder,
                  limit, NoCursor)
  IN Outcome(ReturnedPage(
               IF ResolveDataOf(resolveData) = "none"
               THEN [i \in 1..Len(result.data) |->
                       [result.data[i] EXCEPT !.input = UndefP, !.output = UndefP]]
               ELSE result.data,
               result.cursor),
             result.data)

\* list: the query over the files of the run, sortOrder defaulting to desc;
\* for 'none' every step of the page is copied with input and output
\* undefined.
ListOutcome(dir, runId, resolveData, limit, sortOrder, cursor) ==
  LET result == paginatedFileSystemQuery(dir, runId \o <<"-">>,
                  IF sortOrder = "omitted" THEN "desc" ELSE sortOrder,
                  limit, cursor)
  IN Outcome(ReturnedPage(
               IF ResolveDataOf(resolveData) = "none"
               THEN [i \in 1..Len(result.data) |->
                       [result.data[i] EXCEPT !.input = UndefP, !.output = UndefP]]
               ELSE result.data,
               result.cursor),
             [i \in 1..Len(result.data) |->
                Spread(result.data[i], ResolveDataOf(resolveData))])

\* steps.list of the filesystem backend.
steps_list(runId, resolveData, limit, sortOrder, cursor) ==
  /\ Serving(ListRequest(runId, resolveData, limit, sortOrder, cursor), ret)
  /\ call' = ListRequest(runId, resolveData, limit, sortOrder, cursor)
  /\ ret' = ListOutcome(stepsDir, runId, resolveData, limit, sortOrder, cursor).ret
  /\ arg' = ListOutcome(stepsDir, runId, resolveData, limit, sortOrder, cursor).arg
  /\ UNCHANGED <<stepsDir, rret, wire, pages>>

\* listWorkflowRunSteps: cursor, limit and sortOrder go into the query with
\* remoteRefBehavior; the page answered comes back with each step through
\* filterStepData and the rest of the response as it is.
listWorkflowRunSteps(runId, resolveData, limit, sortOrder, cursor, answer) ==
  LET rd == ResolveDataOf(resolveData)
      sent == [NoResult EXCEPT !.remoteRefBehavior = RemoteRefBehavior(rd),
                               !.endpoint = "/v2/runs/:runId/steps"]
  IN /\ Serving(ListRequest(runId, resolveData, limit, sortOrder, cursor), rret)
     /\ call' = ListRequest(runId, resolveData, limit, sortOrder, cursor)
     /\ wire' = answer.body
     /\ rret' = IF answer.ok
                THEN [sent EXCEPT
                        !.status = "ok",
                        !.data = [i \in 1..Len(answer.body) |->
                                    vercel_filterStepData(answer.body[i], rd)],
                        !.cursor = answer.cursor]
                ELSE [sent EXCEPT !.status = "throw", !.msg = ServerError]
     /\ UNCHANGED <<stepsDir, ret, arg, pages>>

(***************************************************************************)
(* The remote server                                                       *)
(***************************************************************************)
\* A stored step as the server sends it: with its data inline, with markers
\* in place of the data it has, or with both.
WireForm(step, form) ==
  LET inRef == IF step.input.kind # "undefined" /\ form # "inline"
               THEN RefP ELSE UndefP
      outRef == IF step.output.kind # "undefined" /\ form # "inline"
                THEN RefP ELSE UndefP
  IN [step EXCEPT !.input = IF form = "refs" THEN UndefP ELSE step.input,
                  !.output = IF form = "refs" THEN UndefP ELSE step.output,
                  !.inputRef = inRef, !.outputRef = outRef]

\* The forms of an answer: resolve sends the data, lazy may send markers
\* in its place.
WireFormsOf(remoteRefBehavior) ==
  IF remoteRefBehavior = "lazy" THEN {"inline", "refs"} ELSE {"inline", "both"}

\* The answers to GET /v2/runs/:runId/steps/:stepId and /v2/steps/:stepId.
ServerGetStep(steps, runId, stepId, remoteRefBehavior) ==
  LET found == {s \in steps : s.stepId = stepId /\ (runId = NoRunId \/ s.runId = runId)}
  IN IF found = {} THEN {NoAnswer}
     ELSE {Answer(WireForm(s, form)) :
             s \in found, form \in WireFormsOf(remoteRefBehavior)}

\* The answers to GET /v2/runs/:runId/steps.
ServerListSteps(steps, runId, remoteRefBehavior, limit, sortOrder, cursor) ==
  LET page == PageOf({s \in steps : s.runId = runId}, sortOrder, limit, cursor)
  IN {AnswerOf([i \in 1..Len(page.data) |-> WireForm(page.data[i], form)],
               page.cursor) :
        form \in WireFormsOf(remoteRefBehavior)}

(***************************************************************************)
(* The codec's inputs                                                      *)
(***************************************************************************)
MessageValues ==
  {UndefSV, NullSV, NumSV("1"), StrSV(<<"boom">>), StrSV(<<>>), NestedObjSV}
StackValues == {UndefSV, StrSV(<<"trace">>)}
CodeValues == {UndefSV, StrSV(<<"E1">>)}

\* The JSON values an error text may hold.
JsonDocs ==
  {NullV, ScalarV(TrueSV), ScalarV(NumSV("1")), ScalarV(NumSV("0")),
   StringV(<<"boom">>), StringV(<<>>),
   ArrV(<<>>), ArrV(<<NumSV("1")>>), ArrV(<<NumSV("1"), NullSV>>)}
  \cup {ObjV(m, s, c) : m \in MessageValues, s \in StackValues, c \in CodeValues}

Prefixes(s) == {SubSeq(s, 1, n) : n \in 0..Len(s)}

\* The text with white space between its tokens.
RECURSIVE Spaced(_)
Spaced(s) ==
  IF Len(s) <= 1 THEN s ELSE <<s[1], WS>> \o Spaced(Tail(s))

\* Error texts: every JSON text of JsonDocs, plain, spaced and padded, every
\* truncation of one (the empty text among them), and texts that are no JSON.
ErrorTexts ==
  UNION {Prefixes(Stringify(d)) : d \in JsonDocs}
  \cup {Spaced(Stringify(d)) : d \in JsonDocs}
  \cup {<<WS>> \o Stringify(d) : d \in JsonDocs}
  \cup {<<WS>>, <<"boom">>, <<"1", "boom">>, <<"{", "}", "}">>}

\* error on the wire: absent, a string, or {message, stack?, code?} with a
\* string message (StepWireSchema).
WireErrors ==
  {UndefinedV}
  \cup {StringV(t) : t \in ErrorTexts}
  \cup {ObjV(m, s, c) : m \in {StrSV(<<"boom">>), StrSV(<<>>)},
                        s \in StackValues, c \in CodeValues}

\* errorRef on the wire: z.any().
WireErrorRefs ==
  {UndefinedV, NullV, ScalarV(NumSV("1")), StringV(<<"trace">>), ArrV(<<>>)}
  \cup {ObjV(m, s, UndefSV) : m \in MessageValues, s \in StackValues}

CodecStep == Step(<<"r">>, <<"s">>, 1, Bytes(<<1>>), Bytes(<<2>>), UndefinedV)

CodecWires ==
  {[CodecStep EXCEPT !.error = e, !.errorRef = r] :
     e \in WireErrors, r \in WireErrorRefs}

InitIdle ==
  /\ call = NoCall
  /\ ret = NoResult
  /\ rret = NoResult
  /\ wire = <<>>
  /\ arg = <<>>
  /\ pages = NoPages

InitCodec ==
  /\ stepsDir = {}
  /\ InitIdle

CodecCreateStep ==
  /\ Idle
  /\ \E w \in CodecWires : createStep(w.runId, Answer(w))

CodecUpdateStep ==
  /\ Idle
  /\ \E w \in CodecWires : updateStep(w.runId, w.stepId, Answer(w))

CodecGetStep ==
  /\ Idle
  /\ \E w \in CodecWires, rd \in {"none", "all", "omitted"} :
       getStep(w.runId, w.stepId, rd, Answer(w))

NextCodec == CodecCreateStep \/ CodecUpdateStep \/ CodecGetStep \/ Settle

\* The remote backend decoding the steps a server answers with.
SpecCodec == InitCodec /\ [][NextCodec]_vars

(***************************************************************************)
(* Reverse lookup in the filesystem backend                                *)
(***************************************************************************)
\* The most steps a seeded store holds.
MaxSteps == 2

\* The stores of at most k of the steps, each in a file of its own.
RECURSIVE StoresOf(_, _)
StoresOf(steps, k) ==
  IF k = 0 THEN {{}}
  ELSE LET smaller == StoresOf(steps, k - 1)
       IN smaller \cup
          UNION {{S \cup {s} : s \in {u \in steps :
                                        \A x \in S : FileId(x) # FileId(u)}} :
                 S \in smaller}

\* Run ids and step ids with and without the separator in them.
LookupRunIds == {<<"r">>, <<"q">>, <<"r", "-", "x">>}
LookupStepIds == {<<"s">>, <<"t">>, <<"x", "-", "s">>}

LookupSteps ==
  {Step(runId, stepId, 1, Bytes(<<1>>), Bytes(<<2>>), UndefinedV) :
     runId \in LookupRunIds, stepId \in LookupStepIds}

InitLookup ==
  /\ stepsDir \in StoresOf(LookupSteps, MaxSteps)
  /\ InitIdle

LookupGet ==
  /\ Idle
  /\ \E runId \in LookupRunIds \cup {NoRunId}, stepId \in LookupStepIds,
        resolveData \in {"none", "all"} :
       steps_get(runId, stepId, resolveData)

NextLookup == LookupGet \/ Settle

\* The filesystem backend looking steps up in a seeded store.
SpecLookup == InitLookup /\ [][NextLookup]_vars

(***************************************************************************)
(* Properties of the lookup (SpecLookup)                                   *)
(***************************************************************************)
\* The filesystem backend answered a steps.get.
GotFs == call.op = "steps.get" /\ ret.status # "none"

\* The stored steps of that step id.
StoredAs(stepId) == {s \in stepsDir : s.stepId = stepId}

\* C4: for a step stored under (runId, stepId) - the only stored step of
\* that step id - steps.get(absent, stepId, p) succeeds and returns what
\* steps.get(runId, stepId, p) returns.
C4_ReverseLookupFindsStep ==
  (GotFs /\ call.runId = NoRunId) =>
    \A s \in StoredAs(call.stepId) :
      StoredAs(call.stepId) = {s} =>
        /\ ret.status = "ok"
        /\ ret = ReadStep(stepsDir, s.runId, s.stepId, call.resolveData).ret

\* The step s of run r-x is the only step stored, and steps.get(absent, s)
\* failed for want of a step s in run r.
C4_HyphenRunLost ==
  /\ GotFs
  /\ call.runId = NoRunId
  /\ call.stepId = <<"s">>
  /\ \E s \in stepsDir : stepsDir = {s} /\ s.runId = <<"r", "-", "x">>
                         /\ s.stepId = <<"s">>
  /\ ret.status = "throw"
  /\ ret.msg = StepInRunNotFound(<<"s">>, <<"r">>)

\* No stored step has the identity the request asks for.
NoBackingRecord ==
  IF call.runId = NoRunId THEN StoredAs(call.stepId) = {}
  ELSE ~\E s \in stepsDir : s.runId = call.runId /\ s.stepId = call.stepId

RunsLookedUnder ==
  IF call.runId = NoRunId
  THEN {SplitFirst(f, "-") : f \in ReverseMatches(stepsDir, call.stepId)}
  ELSE {call.runId}

MaxLimit == 2

RunIds == {<<"r">>, <<"q">>}
StepIds == {<<"s">>, <<"t">>}
Inputs == {UndefP, Bytes(<<1>>)}
Outputs == {UndefP, Bytes(<<>>)}
ResolveDataParams == {"none", "all", "omitted"}

SeedSteps ==
  {Step(runId, stepId, 1, input, output, UndefinedV) :
     runId \in RunIds, stepId \in StepIds, input \in Inputs, output \in Outputs}

Runs == {Run(runId, input, output) :
           runId \in RunIds, input \in Inputs, output \in Outputs}
Events == {Event(<<"e">>, eventData) : eventData \in Inputs}
Hooks == {Hook(<<"h">>, metadata) : metadata \in Outputs}

\* A pure filter applied to an entity: the entity handed over is kept
\* beside the projection returned.
Filtered(op, resolveData, projection, handed) ==
  /\ Idle
  /\ call' = Request(op, NoRunId, <<>>, resolveData)
  /\ ret' = Returned(projection)
  /\ arg' = <<handed>>
  /\ UNCHANGED <<stepsDir, rret, wire, pages>>

FilterRun ==
  \E run \in Runs, resolveData \in {"none", "all"} :
    Filtered("filterRunData", resolveData, filterRunData(run, resolveData),
             Spread(run, resolveData))

FilterEvent ==
  \E event \in Events, resolveData \in {"none", "all"} :
    Filtered("filterEventData", resolveData,
             filterEventData(event, resolveData), event)

FilterHook ==
  \E hook \in Hooks, resolveData \in {"none", "all"} :
    Filtered("filterHookData", resolveData,
             filterHookData(hook, resolveData), hook)

\* The backends serve one request at a time; the one in progress may be
\* answered by the other backend as well.
GetParams == (RunIds \cup {NoRunId}) \X StepIds \X ResolveDataParams

LocalGet ==
  \E g \in GetParams :
    IF Idle \/ call = Request("steps.get", g[1], g[2], g[3])
    THEN steps_get(g[1], g[2], g[3])
    ELSE FALSE

RemoteGet ==
  \E g \in GetParams :
    IF Idle \/ call = Request("steps.get", g[1], g[2], g[3])
    THEN \E answer \in ServerGetStep(stepsDir, g[1], g[2],
                         RemoteRefBehavior(ResolveDataOf(g[3]))) :
           getStep(g[1], g[2], g[3], answer)
    ELSE FALSE

ListParams == RunIds \X ResolveDataParams \X (1..MaxLimit) \X {"asc", "desc"}

LocalList ==
  \E l \in ListParams :
    IF Idle \/ call = ListRequest(l[1], l[2], l[3], l[4], NoCursor)
    THEN steps_list(l[1], l[2], l[3], l[4], NoCursor)
    ELSE FALSE

RemoteList ==
  \E l \in ListParams :
    IF Idle \/ call = ListRequest(l[1], l[2], l[3], l[4], NoCursor)
    THEN \E answer \in ServerListSteps(stepsDir, l[1],
                         RemoteRefBehavior(ResolveDataOf(l[2])), l[3], l[4],
                         NoCursor) :
           listWorkflowRunSteps(l[1], l[2], l[3], l[4], NoCursor, answer)
    ELSE FALSE

Init ==
  /\ stepsDir \in StoresOf(SeedSteps, MaxSteps)
  /\ InitIdle

Next ==
  \/ LocalGet \/ RemoteGet \/ LocalList \/ RemoteList
  \/ FilterRun \/ FilterEvent \/ FilterHook
  \/ Settle

\* The filesystem backend and the remote backend reading the same steps.
Spec == Init /\ [][Next]_vars

(***************************************************************************)
(* Properties of the step codec (SpecCodec)                                *)
(***************************************************************************)
\* The remote backend returned a step it decoded.
Decoded == rret.status = "ok" /\ call.op \in {"createStep", "updateStep", "steps.get"}

\* A StructuredError: an object whose message is a string.
IsStructuredError(v) == v.kind = "object" /\ v.message.kind = "string"

\* C2: deserializeStep is total - whatever error and errorRef the wire step
\* carries, the step comes back and its error is absent or a StructuredError
\* (an object whose message is a string).
C2_ErrorCodecTotal ==
  call.op \in {"createStep", "updateStep", "steps.get"} =>
    /\ rret.status = "ok"
    /\ \/ rret.value.error.kind = "undefined"
       \/ IsStructuredError(rret.value.error)

\* An error text '{"message":1}' was decoded: the message of the result is
\* the number.
C2_NumberMessage ==
  /\ Decoded
  /\ wire[1].error = StringV(<<"{", "\"message\"", ":", "1", "}">>)
  /\ rret.value.error.message = NumSV("1")

FallbackOfText(text) ==
  LET p == JSONParse(text)
  IN IF p.ok /\ p.val.kind = "object" /\ p.val.message.kind # "undefined"
     THEN ObjV(p.val.message, p.val.stack, p.val.code)
     ELSE IF p.ok THEN MessageOnly(StrSV(StringOf(p.val)))
     ELSE MessageOnly(StrSV(text))

\* C8: for a string error (the empty string too) and no errorRef the result
\* carries the StructuredError of the ordered fallback - the fields of the
\* parsed object that has a message, else the string form of the parsed
\* value, else the raw text; for an object error the fields are copied,
\* message defaulting to "Unknown error".
C8_OrderedFallback ==
  (Decoded /\ wire[1].errorRef.kind = "undefined") =>
    /\ wire[1].error.kind = "string" =>
         rret.value.error = FallbackOfText(wire[1].error.str)
    /\ wire[1].error.kind = "object" =>
         rret.value.error =
           ObjV(IF wire[1].error.message.kind = "undefined"
                THEN StrSV(<<"Unknown error">>) ELSE wire[1].error.message,
                wire[1].error.stack, wire[1].error.code)

\* The empty error text was decoded: the result carries no error.
C8_EmptyText ==
  /\ Decoded
  /\ wire[1].error = StringV(<<>>)
  /\ wire[1].errorRef.kind = "undefined"
  /\ rret.value.error.kind = "undefined"

(***************************************************************************)
(* Properties of the resolution policy (Spec)                              *)
(***************************************************************************)
\* The resolveData in force for the request.
InForce == ResolveDataOf(call.resolveData)

\* The step carries no input and no output.
WithoutData(step) == step.input = UndefP /\ step.output = UndefP

\* The step carries the input and output of the stored step of its identity.
WithStoredData(step) ==
  \E s \in stepsDir :
    /\ s.runId = step.runId /\ s.stepId = step.stepId
    /\ step.input = s.input /\ step.output = s.output

\* What resolveData promises of a returned step.
Resolved(step) ==
  /\ call.resolveData = "none" => WithoutData(step)
  /\ call.resolveData = "all" => WithStoredData(step)

\* C1: whatever is stored, a get or list with resolveData='none' returns
\* entities without input and output (eventData, metadata), and one with
\* resolveData='all' returns them with the stored values - by the steps
\* storage of both backends and by the filters of runs, events and hooks.
C1_ResolveDataProjection ==
  /\ (call.op = "steps.get" /\ ret.status = "ok") => Resolved(ret.value)
  /\ (call.op = "steps.get" /\ rret.status = "ok") => Resolved(rret.value)
  /\ (call.op = "steps.list" /\ ret.status = "ok") =>
       \A i \in 1..Len(ret.data) : Resolved(ret.data[i])
  /\ (call.op = "steps.list" /\ rret.status = "ok") =>
       \A i \in 1..Len(rret.data) : Resolved(rret.data[i])
  /\ call.op = "filterRunData" =>
       /\ call.resolveData = "none" => WithoutData(ret.value)
       /\ call.resolveData = "all" =>
            /\ ret.value.input = arg[1].input
            /\ ret.value.output = arg[1].output
  /\ call.op = "filterEventData" =>
       /\ call.resolveData = "none" => ret.value.eventData = UndefP
       /\ call.resolveData = "all" => ret.value.eventData = arg[1].eventData
  /\ call.op = "filterHookData" =>
       /\ call.resolveData = "none" => ret.value.metadata = UndefP
       /\ call.resolveData = "all" => ret.value.metadata = arg[1].metadata

\* A step stored with input and output was read with 'none' and came back
\* without them.
C1_StoredDataWithheld ==
  /\ call.op = "steps.get"
  /\ call.resolveData = "none"
  /\ ret.status = "ok"
  /\ WithoutData(ret.value)
  /\ \E s \in stepsDir :
       /\ s.runId = ret.value.runId /\ s.stepId = ret.value.stepId
       /\ s.input = Bytes(<<1>>) /\ s.output = Bytes(<<>>)

SameShape(local, remote) ==
  /\ remote.runId = local.runId
  /\ remote.stepId = local.stepId
  /\ remote.input = local.input
  /\ remote.output = local.output

NoMarkers(step) == step.inputRef = UndefP /\ step.outputRef = UndefP

\* C10: both backends apply the resolution policy alike.  For one request
\* answered by both, the remote one from a wire step that carries the
\* record the filesystem one read (with or without markers), the entities
\* are of one shape; a 'none' projection carries no marker; and the remote
\* request asks for lazy exactly for 'none', for resolve otherwise.
C10_BackendsAgree ==
  /\ rret.status # "none" =>
       rret.remoteRefBehavior =
         IF call.resolveData = "none" THEN "lazy" ELSE "resolve"
  /\ (call.op = "steps.get" /\ rret.status = "ok" /\ InForce = "none") =>
       NoMarkers(rret.value)
  /\ (call.op = "steps.list" /\ rret.status = "ok" /\ InForce = "none") =>
       \A i \in 1..Len(rret.data) : NoMarkers(rret.data[i])
  /\ (call.op = "steps.get" /\ ret.status = "ok" /\ rret.status = "ok"
      /\ wire[1].runId = ret.value.runId) =>
       SameShape(ret.value, rret.value)
  /\ (call.op = "steps.list" /\ ret.status = "ok" /\ rret.status = "ok") =>
       /\ Len(rret.data) = Len(ret.data)
       /\ \A i \in 1..Len(ret.data) : SameShape(ret.data[i], rret.data[i])

\* Both backends answered a 'none' get of a step stored with data; the
\* server had sent markers in place of the data, and neither entity carries
\* data or marker.
C10_LazyAnswerProjected ==
  /\ call.op = "steps.get"
  /\ call.resolveData = "none"
  /\ ret.status = "ok"
  /\ rret.status = "ok"
  /\ wire[1].inputRef = RefP
  /\ wire[1].input = UndefP
  /\ NoMarkers(rret.value)
  /\ SameShape(ret.value, rret.value)
  /\ arg[1].input = Bytes(<<1>>)

(***************************************************************************)
(* A listing followed through its pages                                    *)
(***************************************************************************)
\* The most steps of the run a seeded store holds.
MaxListSteps == 5

ListStepIds ==
  {<<"a">>, <<"b">>, <<"a", "a">>, <<"a", "b">>, <<"b", "a">>, <<"b", "b">>}

\* Creation times that tie and that do not follow the order of the ids.
ListCreatedAt(stepId) == IF stepId[Len(stepId)] = "a" THEN 2 ELSE 1

\* The steps of run r a store is seeded from, and a step of another run.
ListSeed ==
  {Step(<<"r">>, stepId, ListCreatedAt(stepId), Bytes(<<1>>), UndefP, UndefinedV) :
     stepId \in ListStepIds}
ForeignStep == Step(<<"q">>, <<"a">>, 1, Bytes(<<1>>), UndefP, UndefinedV)

InitList ==
  /\ stepsDir \in {S \cup F : S \in StoresOf(ListSeed, MaxListSteps),
                              F \in {{}, {ForeignStep}}}
  /\ InitIdle

\* The listings a caller starts: of run r, with a limit and a sort order.
ListStarts == {"none", "all"} \X (1..MaxLimit) \X {"asc", "desc", "omitted"}

\* The first page from the filesystem backend; no listing is under way.
ListFirst ==
  /\ Idle
  /\ pages = NoPages
  /\ \E l \in ListStarts : steps_list(<<"r">>, l[1], l[2], l[3], NoCursor)

\* The next page from the filesystem backend, with the cursor the last page
\* came with and the parameters of the listing.
ListNext ==
  /\ Idle
  /\ pages.cursor.present
  /\ pages.backend = "fs"
  /\ steps_list(pages.params.runId, pages.params.resolveData,
                pages.params.limit, pages.params.sortOrder, pages.cursor)

\* The first page from the remote backend.
RemoteListFirst ==
  /\ Idle
  /\ pages = NoPages
  /\ \E l \in ListStarts :
       /\ l[3] # "omitted"
       /\ \E answer \in ServerListSteps(stepsDir, <<"r">>,
                          RemoteRefBehavior(ResolveDataOf(l[1])), l[2], l[3],
                          NoCursor) :
            listWorkflowRunSteps(<<"r">>, l[1], l[2], l[3], NoCursor, answer)

\* The next page from the remote backend.
RemoteListNext ==
  /\ Idle
  /\ pages.cursor.present
  /\ pages.backend = "remote"
  /\ \E answer \in ServerListSteps(stepsDir, pages.params.runId,
                     RemoteRefBehavior(ResolveDataOf(pages.params.resolveData)),
                     pages.params.limit, pages.params.sortOrder, pages.cursor) :
       listWorkflowRunSteps(pages.params.runId, pages.params.resolveData,
                            pages.params.limit, pages.params.sortOrder,
                            pages.cursor, answer)

\* The caller takes the page: it is the first of a listing or the next of
\* the one under way, and its cursor is the one to go on with.
Collect ==
  /\ call.op = "steps.list"
  /\ LET page == IF ret.status = "ok" THEN ret ELSE rret
     IN pages' = [params |-> [call EXCEPT !.cursor = NoCursor],
                  backend |-> IF ret.status = "ok" THEN "fs" ELSE "remote",
                  got |-> IF call.cursor.present
                          THEN Append(pages.got, page.data)
                          ELSE <<page.data>>,
                  cursor |-> page.cursor]
  /\ call' = NoCall
  /\ ret' = NoResult
  /\ rret' = NoResult
  /\ wire' = <<>>
  /\ arg' = <<>>
  /\ UNCHANGED stepsDir

\* The listing came to its last page; the caller lets go of it.
ListDone ==
  /\ Idle
  /\ pages # NoPages
  /\ ~pages.cursor.present
  /\ pages' = NoPages
  /\ UNCHANGED <<stepsDir, call, ret, rret, wire, arg>>

NextList ==
  \/ ListFirst \/ ListNext \/ RemoteListFirst \/ RemoteListNext
  \/ Collect \/ ListDone

\* A caller following listings of run r through their pages.
SpecList == InitList /\ [][NextList]_vars

(***************************************************************************)
(* Properties of a listing followed through its pages (SpecList)           *)
(***************************************************************************)
\* The pages taken so far, one after the other.
RECURSIVE Flat(_)
Flat(got) == IF got = <<>> THEN <<>> ELSE Head(got) \o Flat(Tail(got))

\* The direction the listing is in; an omitted sortOrder is desc.
Direction ==
  IF pages.params.sortOrder = "asc" THEN "asc" ELSE "desc"

\* The stored steps of the run listed, and those no page has had yet.
StepsOfRun == {s \in stepsDir : s.runId = pages.params.runId}
Unlisted ==
  {s \in StepsOfRun :
     \A i \in 1..Len(Flat(pages.got)) : Flat(pages.got)[i].stepId # s.stepId}

\* C6: of a listing followed from its start with the cursors returned, in
\* an unmodified store, each page has at most limit steps and a page with
\* a cursor has limit steps; the pages together hold steps of the run, each
\* once, in the order (creation time, then step id) of the direction, before
\* every step not listed yet; a page comes with a cursor exactly when steps
\* are left, so the listing ends having every step of the run exactly once.
C6_PagesPartitionRun ==
  pages # NoPages =>
    LET flat == Flat(pages.got)
        last == Len(pages.got)
    IN /\ \A p \in 1..last : Len(pages.got[p]) <= pages.params.limit
       /\ \A p \in 1..(last - 1) : Len(pages.got[p]) = pages.params.limit
       /\ pages.cursor.present => Len(pages.got[last]) = pages.params.limit
       /\ \A i \in 1..Len(flat) :
            \E s \in StepsOfRun :
              s.stepId = flat[i].stepId /\ s.createdAt = flat[i].createdAt
       /\ \A i, j \in 1..Len(flat) :
            i < j => Before(flat[i], flat[j], Direction)
       /\ \A i \in 1..Len(flat) :
            \A s \in Unlisted : Before(flat[i], s, Direction)
       /\ pages.cursor.present <=> Unlisted # {}

\* Five steps of the run, limit 2, desc: the listing ended with pages of 2,
\* 2 and 1 steps, the newest first, and no cursor with the last.
C6_FiveStepsInThreePages ==
  /\ Cardinality(StepsOfRun) = 5
  /\ pages.params.limit = 2
  /\ pages.params.sortOrder = "desc"
  /\ pages.backend = "fs"
  /\ Len(pages.got) = 3
  /\ Len(pages.got[1]) = 2
  /\ Len(pages.got[2]) = 2
  /\ Len(pages.got[3]) = 1
  /\ ~pages.cursor.present
  /\ \A s \in StepsOfRun : ~Before(s, pages.got[1][1], "desc")

(***************************************************************************)
(* world: the schemas of serialized data                                   *)
(***************************************************************************)
\* The constructors on the prototype chain of a value, nearest first; a
\* primitive has none.
ProtoChain(kind) ==
  CASE kind = "Uint8Array" -> <<"Uint8Array", "TypedArray", "Object">>
    [] kind = "Buffer" -> <<"Buffer", "Uint8Array", "TypedArray", "Object">>
    [] kind = "Uint16Array" -> <<"Uint16Array", "TypedArray", "Object">>
    [] kind = "ArrayBuffer" -> <<"ArrayBuffer", "Object">>
    [] kind = "Array" -> <<"Array", "Object">>
    [] kind = "object" -> <<"Object">>
    [] OTHER -> <<>>

\* value instanceof ctor
InstanceOf(value, ctor) == ctor \in Range(ProtoChain(value.kind))

\* What a schema makes of a value: the value, or a ZodError.
Valid(value) == [ok |-> TRUE, data |-> value]
Invalid == [ok |-> FALSE, data |-> UndefP]
ZodError == [template |-> "ZodError", stepId |-> <<>>, runId |-> <<>>]

\* Mutant of BinarySerializedDataSchema: any object that holds numbers is
\* taken for bytes.
BinarySerializedDataSchema_AnyNumbers(value) ==
  IF value.kind \in {"Uint8Array", "Buffer", "Uint16Array", "Array"}
  THEN Valid(value) ELSE Invalid

\* z.instanceof(Uint8Array)
BinarySerializedDataSchema(value) ==
  IF InstanceOf(value, "Uint8Array") THEN Valid(value) ELSE Invalid

\* z.any()
LegacySerializedDataSchemaV1(value) == Valid(value)

\* z.union([BinarySerializedDataSchema, LegacySerializedDataSchemaV1]): the
\* first option that takes the value.
SerializedDataSchema(value) ==
  IF BinarySerializedDataSchema(value).ok
  THEN BinarySerializedDataSchema(value)
  ELSE IF LegacySerializedDataSchemaV1(value).ok
       THEN LegacySerializedDataSchemaV1(value)
       ELSE Invalid

\* TextEncoder.encode of a text: the Uint8Array of its bytes.
TextEncoderEncode(text) == Bytes(text)

\* schema.parse(value)
Parse(op, result, value) ==
  /\ Idle
  /\ call' = [NoCall EXCEPT !.op = op, !.payload = value]
  /\ ret' = IF result.ok
            THEN [NoResult EXCEPT !.status = "ok", !.payload = result.data]
            ELSE Thrown(ZodError)
  /\ UNCHANGED <<stepsDir, rret, wire, arg, pages>>

\* The longest content of a value.
MaxBytes == 2

ByteValues == {0, 255}

RECURSIVE Contents(_)
Contents(n) ==
  IF n = 0 THEN {<<>>}
  ELSE Contents(n - 1) \cup
       {Append(c, b) : c \in {d \in Contents(n - 1) : Len(d) = n - 1},
                       b \in ByteValues}

\* Encoded values, and values of the legacy format: anything.
SerializedValues ==
  {TextEncoderEncode(text) : text \in Contents(MaxBytes)}
  \cup {[kind |-> k, bytes |-> c] :
          k \in {"Buffer", "Uint16Array", "ArrayBuffer", "Array", "string"},
          c \in Contents(MaxBytes)}
  \cup {[kind |-> k, bytes |-> <<>>] :
          k \in {"undefined", "null", "number", "boolean", "object"}}

ParseBinary ==
  \E value \in SerializedValues :
    Parse("BinarySerializedDataSchema", BinarySerializedDataSchema(value), value)

ParseLegacy ==
  \E value \in SerializedValues :
    Parse("LegacySerializedDataSchemaV1", LegacySerializedDataSchemaV1(value),
          value)

ParseCombined ==
  \E value \in SerializedValues :
    Parse("SerializedDataSchema", SerializedDataSchema(value), value)

InitSer ==
  /\ stepsDir = {}
  /\ InitIdle

NextSer == ParseBinary \/ ParseLegacy \/ ParseCombined \/ Settle

\* Values put to the schemas of serialized data.
SpecSer == InitSer /\ [][NextSer]_vars

(***************************************************************************)
(* Properties of the schemas (SpecSer)                                     *)
(***************************************************************************)
\* The value is a raw byte sequence: a Uint8Array, or a Buffer, which is one.
IsByteSequence(value) == value.kind \in {"Uint8Array", "Buffer"}

====
